---- MODULE Spec2Model ----
(***************************************************************************)
(* Bokstavsresan (src/src/bokstavsresan/main.py): the progress record of   *)
(* ProgressStore, the file progress.json it is saved to, the handlers of   *)
(* the three game modes of App (Explore, Find the letter, Sound out), the  *)
(* speech of _speak and the timeouts the handlers schedule.                *)
(*                                                                         *)
(* A letter is a one-character string; the letters A-ring, A-umlaut and    *)
(* O-umlaut are written "AA", "AE" and "OE".  A word is the sequence of    *)
(* its letters.  None is the string "None" for target_letter and the empty *)
(* sequence for current_word (the code only tests current_word's truth).   *)
(***************************************************************************)
EXTENDS Integers, Sequences, FiniteSets, TLC

(***************************************************************************)
(* Bounds of the model.                                                    *)
(***************************************************************************)
\* The game is played with the first NumLetters letters of Alphabet and the
\* words of the three lists that are spelled with them.
NumLetters == 3
\* The letters of the Find rounds of SpecFind: the first NumFindLetters.
NumFindLetters == 7
\* The letters of the words of SpecWords: the first NumWordLetters.
NumWordLetters == 6
\* A run opens with one of the scripted plays 0..MaxPrior (see WarmUp).
MaxPrior == 3
\* record_correct / record_wrong calls after the scripted play.
MaxSteps == 2
\* Writes of progress.json that the file system fails.
MaxFaults == 1
\* Next-sound clicks on a word with no letter left, in one round.
MaxIdle == 2
\* the pending timeouts a hasty user does not wait for
MaxHaste == 1
\* The scripted play picks a wrong letter in Find, once, when total_correct
\* has come to PriorWrongAt.
PriorWrongAt == 8

(***************************************************************************)
(* Program constants.                                                      *)
(***************************************************************************)
\* total_correct % 20 == 0 (line 691)
LevelEvery == 20
\* min(level + 1, 3) (line 693)
MaxLevel == 3
\* streak % 5 == 0 (line 156)
StreakEvery == 5
\* stars += 2 (line 157)
BonusStars == 2
\* random.sample(distractors, min(5, len(distractors))) (line 575)
NumDistractors == 5

Range(s) == {s[i] : i \in 1..Len(s)}

\* The keys of LETTER_PHONETICS (lines 27-34), in an order whose prefixes
\* spell words of all three lists.
Alphabet ==
    << "A", "K", "T", "S", "O", "L", "B", "M", "E", "N", "D", "G", "R", "I",
       "H", "U", "F", "J", "P", "V", "C", "Q", "W", "X", "Y", "Z",
       "AA", "AE", "OE" >>

\* letters = list(LETTER_PHONETICS.keys()) (line 571), within the bound.
LETTERS == SubSeq(Alphabet, 1, NumLetters)
FIND_LETTERS == SubSeq(Alphabet, 1, NumFindLetters)
WORD_LETTERS == SubSeq(Alphabet, 1, NumWordLetters)

WORDS_EASY ==
    << <<"S","O","L">>, <<"K","A","T">>, <<"H","U","S">>, <<"B","I","L">>,
       <<"M","U","S">>, <<"H","AA","R">>, <<"B","AA","T">>, <<"OE","G","A">>,
       <<"A","R","M">>, <<"B","E","N">>, <<"L","AA","S">>, <<"N","AE","S">> >>

WORDS_MEDIUM ==
    << <<"B","O","L","L">>, <<"L","A","M","M">>, <<"F","I","S","K">>,
       <<"G","R","I","S">>, <<"H","U","N","D">>, <<"K","A","T","T">>,
       <<"S","T","O","L">>, <<"D","OE","R","R">>, <<"B","L","A","D">>,
       <<"S","N","AE","L">>, <<"G","L","A","D">>, <<"S","T","O","R">> >>

WORDS_HARD ==
    << <<"AE","P","P","L","E">>, <<"S","K","O","L","A">>,
       <<"B","J","OE","R","N">>, <<"B","L","O","M","M","A">>,
       <<"S","T","J","AE","R","N","A">>, <<"T","R","AE","D">>,
       <<"S","J","U","N","G","A">>, <<"H","I","M","M","E","L">>,
       <<"V","A","T","T","E","N">> >>

\* The words of a list that the letters of the model spell.
Spelled(letters, w) == Range(w) \subseteq Range(letters)
Playable(letters, words) == SelectSeq(words, LAMBDA w : Spelled(letters, w))

NoWord == << >>
NoLetter == "None"

(***************************************************************************)
(* ProgressStore                                                           *)
(***************************************************************************)
\* self.data of ProgressStore.__init__ (lines 132-133)
DefaultData ==
    [ letters_mastered |-> << >>, streak |-> 0, total_correct |-> 0,
      total_attempts |-> 0, stars |-> 0, level |-> 1 ]

\* progress.json: absent, cut short by a failed write, not to be opened, or
\* a JSON object.
NoFile == [ kind |-> "absent" ]
Truncated == [ kind |-> "truncated" ]
Unreadable == [ kind |-> "unreadable" ]

\* json.dump writes a str with ensure_ascii: a letter outside ASCII as its
\* \u escape ("AA", "AE", "OE" stand for the letters U+00C5, U+00C4, U+00D6
\* of LETTER_PHONETICS, line 33); json.load reads the escape back.
JsonString(s) ==
    CASE s = "AA" -> "\\u00c5"
      [] s = "AE" -> "\\u00c4"
      [] s = "OE" -> "\\u00d6"
      [] OTHER -> s

\* A reading that leaves the escapes as they are written: not what
\* json.load does.
JsonLoadString_Raw(t) == t

JsonLoadString(t) ==
    CASE t = "\\u00c5" -> "AA"
      [] t = "\\u00c4" -> "AE"
      [] t = "\\u00d6" -> "OE"
      [] OTHER -> t

\* The members of the JSON object written for a dict and the dict read from
\* the members: the list of letters string by string, a number as it is.
JsonMembers(d) ==
    [ k \in DOMAIN d |->
        IF k = "letters_mastered"
        THEN [ i \in DOMAIN d[k] |-> JsonString(d[k][i]) ]
        ELSE d[k] ]

JsonLoad(members) ==
    [ k \in DOMAIN members |->
        IF k = "letters_mastered"
        THEN [ i \in DOMAIN members[k] |-> JsonLoadString(members[k][i]) ]
        ELSE members[k] ]

\* A dump that leaves out the level: not what line 147 writes.
Dump_NoLevel(d) ==
    [ kind |-> "json",
      members |-> [ k \in (DOMAIN d) \ {"level"} |-> JsonMembers(d)[k] ] ]

\* json.dump(self.data, f, indent=2) (line 147): a JSON object with one
\* member per key of the dict.
Dump(d) == [ kind |-> "json", members |-> JsonMembers(d) ]

\* dict.update (line 140): the keys of both, the values of `other` first.
Update(d, other) ==
    [ k \in (DOMAIN d) \cup (DOMAIN other) |->
        IF k \in DOMAIN other THEN other[k] ELSE d[k] ]

\* A load that takes the stored object for the record: not what line 140
\* does.
Load_Replace(d, file) ==
    IF file.kind = "json" THEN JsonLoad(file.members) ELSE d

\* ProgressStore._load (lines 136-142): an absent file is skipped; a file
\* that open or json.load raises on is skipped too, the exception caught
\* by line 141.
Load(d, file) ==
    IF file.kind = "json" THEN Update(d, JsonLoad(file.members)) ELSE d

\* Three records that record_correct does not leave, each off by one line:
\* the bonus test on the streak before its increment, the bonus test on
\* total_correct, and the letter appended whether or not it is mastered.
\* The statements of record_correct below do not hold of them.
RecordCorrectData_OldStreak(d, letter) ==
    LET mastered == IF letter \in Range(d.letters_mastered)
                    THEN d.letters_mastered
                    ELSE Append(d.letters_mastered, letter)
        bonus == IF d.streak % StreakEvery = 0 THEN BonusStars ELSE 0
    IN  [ d EXCEPT !.total_correct = @ + 1,
                   !.total_attempts = @ + 1,
                   !.streak = @ + 1,
                   !.stars = @ + 1 + bonus,
                   !.letters_mastered = mastered ]

RecordCorrectData_BonusOnTotal(d, letter) ==
    LET mastered == IF letter \in Range(d.letters_mastered)
                    THEN d.letters_mastered
                    ELSE Append(d.letters_mastered, letter)
        bonus == IF (d.total_correct + 1) % StreakEvery = 0
                 THEN BonusStars ELSE 0
    IN  [ d EXCEPT !.total_correct = @ + 1,
                   !.total_attempts = @ + 1,
                   !.streak = @ + 1,
                   !.stars = @ + 1 + bonus,
                   !.letters_mastered = mastered ]

RecordCorrectData_AlwaysAppend(d, letter) ==
    LET streak == d.streak + 1
        bonus == IF streak % StreakEvery = 0 THEN BonusStars ELSE 0
    IN  [ d EXCEPT !.total_correct = @ + 1,
                   !.total_attempts = @ + 1,
                   !.streak = streak,
                   !.stars = @ + 1 + bonus,
                   !.letters_mastered = Append(@, letter) ]

\* The dict after the assignments of record_correct (lines 150-157).
RecordCorrectData(d, letter) ==
    LET streak == d.streak + 1
        mastered == IF letter \in Range(d.letters_mastered)
                    THEN d.letters_mastered
                    ELSE Append(d.letters_mastered, letter)
        bonus == IF streak % StreakEvery = 0 THEN BonusStars ELSE 0
    IN  [ d EXCEPT !.total_correct = @ + 1,
                   !.total_attempts = @ + 1,
                   !.streak = streak,
                   !.stars = @ + 1 + bonus,
                   !.letters_mastered = mastered ]

\* Two records that record_wrong does not leave: the streak kept, and the
\* wrong answer counted in total_correct instead of total_attempts.
RecordWrongData_KeepStreak(d) ==
    [ d EXCEPT !.total_attempts = @ + 1 ]

RecordWrongData_CountsCorrect(d) ==
    [ d EXCEPT !.total_correct = @ + 1, !.streak = 0 ]

\* The dict after the assignments of record_wrong (lines 161-162).
RecordWrongData(d) ==
    [ d EXCEPT !.total_attempts = @ + 1, !.streak = 0 ]

\* The level-up check of _on_next_sound (lines 690-694).
LevelUpDue(d) == d.total_correct > 0 /\ d.total_correct % LevelEvery = 0

Min(a, b) == IF a <= b THEN a ELSE b

\* The level-up without the min(..., 3) of line 693.
LevelUpData_NoCap(d) == [ d EXCEPT !.level = @ + 1 ]

LevelUpData(d) == [ d EXCEPT !.level = Min(d.level + 1, MaxLevel) ]

\* ProgressStore.save (lines 144-147) has three outcomes: the file is
\* written; mkdir or open raises and the file is left as it was; the write
\* raises after open(path, "w") has truncated the file.  save catches
\* nothing, so in the last two the exception leaves the calling handler.
SaveOutcomes == {"written", "not_opened", "cut_short"}

SavedFile(d, file, outcome) ==
    CASE outcome = "written" -> Dump(d)
      [] outcome = "not_opened" -> file
      [] outcome = "cut_short" -> Truncated

(***************************************************************************)
(* The history of the progress record since it was the default record,     *)
(* kept beside it for the statements below: the number of record_correct   *)
(* calls, the number of them that ended with streak a positive multiple    *)
(* of 5, the number of record_wrong calls, and the letters passed to       *)
(* record_correct.                                                         *)
(***************************************************************************)
NoHistory ==
    [ correct_calls |-> 0, bonus_calls |-> 0, wrong_calls |-> 0, passed |-> {} ]

HistoryCorrect(h, d, letter) ==
    LET streak == d.streak + 1
    IN  [ h EXCEPT !.correct_calls = @ + 1,
                   !.bonus_calls =
                       IF streak > 0 /\ streak % StreakEvery = 0
                       THEN @ + 1 ELSE @,
                   !.passed = @ \cup {letter} ]

HistoryWrong(h) == [ h EXCEPT !.wrong_calls = @ + 1 ]

\* The history of the record in progress.json after a save.
SavedHistory(h, old, outcome) ==
    CASE outcome = "written" -> h
      [] outcome = "not_opened" -> old
      [] outcome = "cut_short" -> NoHistory

(***************************************************************************)
(* Find the letter: the outcomes of the random draws of _start_find_round. *)
(***************************************************************************)
\* distractors = [l for l in letters if l != self.target_letter] (line 574)
Distractors(letters, target) ==
    SelectSeq(letters, LAMBDA l : l # target)

\* random.sample(population, k) (line 575): k elements of k distinct
\* positions of the population; here in the order of their positions.
RECURSIVE Sample(_, _)
Sample(population, k) ==
    IF k = 0 THEN { << >> }
    ELSE IF Len(population) < k THEN {}
    ELSE { <<Head(population)>> \o s : s \in Sample(Tail(population), k - 1) }
         \cup Sample(Tail(population), k)

\* random.shuffle(choices) (line 576): a permutation of the list; here the
\* rotations of the list.
Shuffle(s) ==
    { [ i \in 1..Len(s) |-> s[((i - 1 + r) % Len(s)) + 1] ] : r \in 0..(Len(s) - 1) }

\* The choices if line 575 sampled from `letters` instead of distractors.
Choices_FromLetters(letters, target) ==
    UNION { Shuffle(<<target>> \o s) :
              s \in Sample(letters, Min(NumDistractors, Len(letters))) }

\* choices of lines 573-576 for a target.
Choices(letters, target) ==
    LET distractors == Distractors(letters, target)
    IN  UNION { Shuffle(<<target>> \o s) :
                  s \in Sample(distractors, Min(NumDistractors, Len(distractors))) }

(***************************************************************************)
(* Sound out the word: the word pool of _start_soundout_round              *)
(* (lines 627-633).                                                        *)
(***************************************************************************)
\* The pools one level early: not what lines 627-633 choose.
WordPool_OneLevelEarly(letters, level) ==
    IF level <= 1
    THEN Playable(letters, WORDS_EASY) \o Playable(letters, WORDS_MEDIUM)
    ELSE Playable(letters, WORDS_EASY) \o Playable(letters, WORDS_MEDIUM)
             \o Playable(letters, WORDS_HARD)

WordPool(letters, level) ==
    IF level <= 1 THEN Playable(letters, WORDS_EASY)
    ELSE IF level <= 2
    THEN Playable(letters, WORDS_EASY) \o Playable(letters, WORDS_MEDIUM)
    ELSE Playable(letters, WORDS_EASY) \o Playable(letters, WORDS_MEDIUM)
             \o Playable(letters, WORDS_HARD)

(***************************************************************************)
(* Speech: _get_tts_engine (lines 83-95) and _speak (lines 98-124).        *)
(***************************************************************************)
\* What launching a backend comes to: the process runs to its end; there is
\* no such program (FileNotFoundError); the process does not end within the
\* timeout (TimeoutExpired); the program may not be executed
\* (PermissionError, an OSError that is not a FileNotFoundError).
ProbeOutcomes == {"runs", "missing", "hangs", "denied"}

Backends == [ piper : ProbeOutcomes, espeak : ProbeOutcomes ]

NoBackends == [ piper |-> "missing", espeak |-> "missing" ]

\* None as an engine; the marker of a call that raised instead of returning
NoEngine == "None"
Raised == "raised"

\* whether subprocess started a process
Starts(outcome) == outcome \in {"runs", "hangs"}

\* _get_tts_engine with espeak-ng probed before piper
GetTtsEngine_EspeakFirst(b) ==
    IF b.espeak = "runs" THEN "espeak-ng"
    ELSE IF b.espeak = "denied" THEN Raised
    ELSE IF b.piper = "runs" THEN "piper"
    ELSE IF b.piper = "denied" THEN Raised
    ELSE NoEngine

\* _get_tts_engine (lines 83-95): the except clauses catch FileNotFoundError
\* and TimeoutExpired only.
GetTtsEngine(b) ==
    IF b.piper = "runs" THEN "piper"
    ELSE IF b.piper = "denied" THEN Raised
    ELSE IF b.espeak = "runs" THEN "espeak-ng"
    ELSE IF b.espeak = "denied" THEN Raised
    ELSE NoEngine

\* The processes _get_tts_engine starts, in order.
Probed(b) ==
    (IF Starts(b.piper) THEN << "piper --help" >> ELSE << >>)
    \o (IF b.piper \in {"missing", "hangs"} /\ Starts(b.espeak)
        THEN << "espeak-ng --help" >> ELSE << >>)

\* The processes the synthesis of lines 104-122 starts: piper and, with its
\* audio, aplay; or espeak-ng.  Every exception is caught (line 123).
Synthesis(engine, b) ==
    IF engine = "piper"
    THEN IF b.piper = "runs" THEN << "piper", "aplay" >>
         ELSE IF b.piper = "hangs" THEN << "piper" >> ELSE << >>
    ELSE IF engine = "espeak-ng"
    THEN IF Starts(b.espeak) THEN << "espeak-ng" >> ELSE << >>
    ELSE << >>

\* The processes _speak(text, engine) starts (lines 98-124): with engine
\* None it calls _get_tts_engine again (lines 100-101).
Speak(engine, b) ==
    IF engine = NoEngine
    THEN Probed(b) \o Synthesis(GetTtsEngine(b), b)
    ELSE Synthesis(engine, b)

\* The processes _speak(text, engine) waits for: communicate and run return
\* when the process ends or after their timeout of 10 s (lines 111-121).
Awaited(engine, b) ==
    Synthesis(IF engine = NoEngine THEN GetTtsEngine(b) ELSE engine, b)

\* The texts passed to _speak: LETTER_PHONETICS[letter] (lines 593, 603),
\* LETTER_SOUNDS.get(letter, letter) (lines 666, 706), the three of them
\* for Explore (line 559), a word (line 642), one of the three cheers
\* (line 614) and the phrase of line 702.
NoText == << >>
NameOf(letter) == << "name", letter >>
SoundOf(letter) == << "sound", letter >>
ExploreText(letter) == << "letter, name, sound", letter >>
WordText(word) == << "word", word >>
Cheer == << "cheer" >>
Amazing == << "Amazing! You did it!" >>

(***************************************************************************)
(* The timeouts of GLib.timeout_add.  Every callback returns None, so each *)
(* timeout fires once.  A callback that speaks a text bound when it was    *)
(* scheduled holds the text; the callbacks of lines 592 and 642 read       *)
(* self.target_letter and self.current_word when they fire, and `round`    *)
(* keeps, for the statements below, the text of the round that scheduled   *)
(* them.  The callback of line 622 holds its button: `button` is the       *)
(* button's place in the grid, 0 once the grid was rebuilt without it.     *)
(***************************************************************************)
SpeakText(text) ==
    [ kind |-> "speak", text |-> text, round |-> NoText, button |-> 0 ]
SpeakTarget(text) ==
    [ kind |-> "speak_target", text |-> NoText, round |-> text, button |-> 0 ]
SpeakWord(text) ==
    [ kind |-> "speak_word", text |-> NoText, round |-> text, button |-> 0 ]
\* a callback that holds no button of the grid: not what line 622 schedules
ClearWrong_NoButton(i) ==
    [ kind |-> "clear_wrong", text |-> NoText, round |-> NoText, button |-> 0 ]

ClearWrong(i) ==
    [ kind |-> "clear_wrong", text |-> NoText, round |-> NoText, button |-> i ]

\* the pending timeouts once the buttons of the grid were removed (lines
\* 578-582)
Detached(ts) == [ n \in DOMAIN ts |-> [ ts[n] EXCEPT !.button = 0 ] ]

\* the sequence without its n-th member
Without(ts, n) == SubSeq(ts, 1, n - 1) \o SubSeq(ts, n + 1, Len(ts))

(***************************************************************************)
(* State                                                                   *)
(***************************************************************************)
VARIABLES
    data,               \* self.progress.data
    file,               \* progress.json
    page,               \* the visible child of self.stack
    target_letter,      \* self.target_letter
    find_grid,          \* the letters of the buttons of self.find_grid
    find_next_visible,  \* self.find_next_btn's visibility
    current_word,       \* self.current_word
    current_word_idx,   \* self.current_word_idx
    tts_engine,         \* self.tts_engine
    backends,           \* what launching piper and espeak-ng comes to now
    launched,           \* the processes the latest handler call started
    said,               \* the text of the latest handler call's _speak
    speaking,           \* the main loop is inside _speak, waiting
    timers,             \* the GLib timeouts that are pending
    wrong,              \* the buttons of the grid with the class "wrong"
    haste,              \* the pending timeouts a click does not wait for
    warmup,             \* handler calls of the scripted play still to come
    faults,             \* failed writes so far
    steps,              \* record_correct / record_wrong calls after the script
    history,            \* the history of the record (see NoHistory)
    file_history,       \* the history of the record in progress.json
    round               \* the history of the round being played

vars ==
    << data, file, page, target_letter, find_grid, find_next_visible,
       current_word, current_word_idx, tts_engine, backends, launched,
       said, speaking, timers, wrong, haste, warmup, faults, steps, history,
       file_history, round >>

\* The history of the round on the page: whether the target was selected
\* since the Find round started; the letters that the Next-sound clicks
\* passed to record_correct since the Sound-out round started, the
\* Next-sound clicks since then that found no letter left, and total_correct
\* when the round started.  Leaving the page ends the round: coming back
\* starts another.
NoRound ==
    [ target_selected |-> FALSE, sounded |-> << >>, idle |-> 0,
      correct_at_start |-> 0 ]

(***************************************************************************)
(* The scripted play: a run opens with warmup handler calls that the       *)
(* script (WarmUp) determines, every write succeeding, and then goes on    *)
(* with any handler.  The script taps the first letter in Explore until    *)
(* total_correct is a word short of the next multiple of 20, then sounds   *)
(* out PriorWord and taps again; once, PriorWrongAt taps from the start,   *)
(* it picks a wrong letter in Find.  Play k (k > 0) stops in its k-th      *)
(* word, the first letter sounded: total_correct = 20 * k - 2 for KAT.     *)
(***************************************************************************)
PriorWord == WordPool(LETTERS, 1)[1]
PriorTaps == LevelEvery - Len(PriorWord)

\* The Find round of the script: the first letter, and the grid as drawn
\* before the shuffle.
PriorTarget == LETTERS[1]
PriorGrid == <<PriorTarget>> \o Distractors(LETTERS, PriorTarget)

\* the first button of the grid that is not the target
PriorWrongButton ==
    CHOOSE i \in 1..Len(find_grid) :
        /\ find_grid[i] # target_letter
        /\ \A j \in 1..(i - 1) : find_grid[j] = target_letter

\* The first round: to Explore, the taps up to PriorWrongAt, back, to Find,
\* the wrong letter, back, to Explore, the other taps.  Every further
\* round: the rest of the word, back, to Explore, the taps.  Every round
\* ends: back, to Sound out, the first letter.
WarmUpLength(k) ==
    IF k = 0 THEN 0 ELSE (PriorTaps + 6) + (k - 1) * (LevelEvery + 4) + 3

(***************************************************************************)
(* App.__init__ (lines 206-218) and ProgressStore.__init__ (130-134).      *)
(***************************************************************************)
\* The page of a program whose App.__init__ raised: there is no window.
NoWindow == "none"

\* The state App.__init__ leaves, with progress.json and the backends as
\* they are.  If _get_tts_engine raises (line 209) App.__init__ raises and
\* main() ends with the exception.
Constructed ==
    /\ tts_engine = GetTtsEngine(backends)
    /\ launched = Probed(backends)
    /\ data = Load(DefaultData, file)
    /\ page = IF tts_engine = Raised THEN NoWindow ELSE "menu"
    /\ target_letter = NoLetter
    /\ find_grid = << >>
    /\ find_next_visible = FALSE
    /\ current_word = NoWord
    /\ current_word_idx = 0
    /\ round = NoRound
    /\ said = NoText
    /\ speaking = FALSE
    /\ timers = << >>
    /\ wrong = {}

\* A first start: there is no progress.json and no backend, and the user
\* clicks when no timeout is pending.
Started ==
    /\ file = NoFile
    /\ file_history = NoHistory
    /\ history = NoHistory
    /\ backends = NoBackends
    /\ haste = 0
    /\ faults = 0
    /\ steps = 0
    /\ Constructed

Init == Started /\ \E k \in 0..MaxPrior : warmup = WarmUpLength(k)

(***************************************************************************)
(* The handlers.  A handler that saves takes the outcome of each save.     *)
(***************************************************************************)
\* A handler call that starts no process.
Quiet ==
    /\ launched' = << >>
    /\ said' = NoText
    /\ speaking' = FALSE
    /\ UNCHANGED << tts_engine, backends >>

\* _start_find_round (lines 565-599)
StartFindRound(letters) ==
    /\ find_next_visible' = FALSE
    /\ target_letter' \in Range(letters)
    /\ find_grid' \in Choices(letters, target_letter')
    /\ wrong' = {}
    /\ timers' = Append(Detached(timers), SpeakTarget(NameOf(target_letter')))
    /\ round' = [ round EXCEPT !.target_selected = FALSE ]

\* _start_soundout_round (lines 624-642)
StartSoundoutRound(letters) ==
    /\ current_word' \in Range(WordPool(letters, data.level))
    /\ current_word_idx' = 0
    /\ timers' = Append(timers, SpeakWord(WordText(current_word')))
    /\ round' = [ round EXCEPT !.sounded = << >>,
                               !.idle = 0,
                               !.correct_at_start = data.total_correct ]

\* _on_mode_select (lines 539-545)
ModeSelect(mode, letters) ==
    /\ page' = mode
    /\ CASE mode = "find" ->
              StartFindRound(letters)
              /\ UNCHANGED << current_word, current_word_idx >>
         [] mode = "soundout" ->
              StartSoundoutRound(letters)
              /\ UNCHANGED << target_letter, find_grid, find_next_visible,
                              wrong >>
         [] OTHER ->
              UNCHANGED << target_letter, find_grid, find_next_visible,
                           current_word, current_word_idx, round, timers,
                           wrong >>
    /\ UNCHANGED << data, file, history, file_history >>
    /\ Quiet

\* the back buttons (lines 408, 449, 497)
Back ==
    /\ page' = "menu"
    /\ round' = NoRound
    /\ UNCHANGED << data, file, target_letter, find_grid, find_next_visible,
                    current_word, current_word_idx, history, file_history,
                    timers, wrong >>
    /\ Quiet

\* An Explore page that counts a tap on a mastered letter as a wrong answer:
\* not what _on_explore_letter does.
ExploreLetter_WrongWhenKnown(letter, outcome) ==
    /\ IF letter \in Range(data.letters_mastered)
       THEN /\ data' = RecordWrongData(data)
            /\ history' = HistoryWrong(history)
       ELSE /\ data' = RecordCorrectData(data, letter)
            /\ history' = HistoryCorrect(history, data, letter)
    /\ file' = SavedFile(data', file, outcome)
    /\ file_history' = SavedHistory(history', file_history, outcome)
    \* line 558 comes before record_correct
    /\ timers' = Append(timers, SpeakText(ExploreText(letter)))
    /\ UNCHANGED << page, target_letter, find_grid, find_next_visible,
                    current_word, current_word_idx, round, wrong >>
    /\ Quiet

\* _on_explore_letter (lines 547-563)
ExploreLetter(letter, outcome) ==
    /\ data' = RecordCorrectData(data, letter)
    /\ history' = HistoryCorrect(history, data, letter)
    /\ file' = SavedFile(data', file, outcome)
    /\ file_history' = SavedHistory(history', file_history, outcome)
    \* line 558 comes before record_correct
    /\ timers' = Append(timers, SpeakText(ExploreText(letter)))
    /\ UNCHANGED << page, target_letter, find_grid, find_next_visible,
                    current_word, current_word_idx, round, wrong >>
    /\ Quiet

\* _on_find_letter (lines 605-622), from the i-th button of the grid
FindLetter(i, outcome) ==
    /\ IF find_grid[i] = target_letter
       THEN /\ data' = RecordCorrectData(data, find_grid[i])
            /\ history' = HistoryCorrect(history, data, find_grid[i])
            /\ file' = SavedFile(data', file, outcome)
            \* line 611 is reached only if record_correct returned
            /\ find_next_visible' =
                   IF outcome = "written" THEN TRUE ELSE find_next_visible
            /\ round' = [ round EXCEPT !.target_selected = TRUE ]
            /\ timers' = IF outcome = "written"
                         THEN Append(timers, SpeakText(Cheer)) ELSE timers
            /\ UNCHANGED wrong
       ELSE /\ data' = RecordWrongData(data)
            /\ history' = HistoryWrong(history)
            /\ file' = SavedFile(data', file, outcome)
            \* lines 621-622 are reached only if record_wrong returned
            /\ wrong' = IF outcome = "written" THEN wrong \cup {i} ELSE wrong
            /\ timers' = IF outcome = "written"
                         THEN Append(timers, ClearWrong(i)) ELSE timers
            /\ UNCHANGED << find_next_visible, round >>
    /\ file_history' = SavedHistory(history', file_history, outcome)
    /\ UNCHANGED << page, target_letter, find_grid, current_word,
                    current_word_idx >>
    /\ Quiet

\* _on_next_sound (lines 672-711) when a letter is left (line 676); `second`
\* is the outcome of the save of line 695, if it is reached.
NextSound(outcome, second) ==
    LET letter == current_word[current_word_idx + 1]
        recorded == RecordCorrectData(data, letter)
        first == SavedFile(recorded, file, outcome)
        first_history == SavedHistory(history', file_history, outcome)
    IN  /\ history' = HistoryCorrect(history, data, letter)
        /\ round' = [ round EXCEPT !.sounded = Append(@, letter) ]
        /\ IF outcome # "written"
           THEN \* record_correct raised: line 679 is not reached
                /\ data' = recorded
                /\ file' = first
                /\ file_history' = first_history
                /\ UNCHANGED << current_word_idx, timers >>
           ELSE /\ current_word_idx' = current_word_idx + 1
                /\ IF current_word_idx' >= Len(current_word)
                      /\ LevelUpDue(recorded)
                   THEN /\ data' = LevelUpData(recorded)
                        /\ file' = SavedFile(data', first, second)
                        /\ file_history' =
                               SavedHistory(history', first_history, second)
                   ELSE /\ data' = recorded
                        /\ file' = first
                        /\ file_history' = first_history
                \* line 701 is reached only if the save of line 695 returned
                /\ timers' =
                       IF current_word_idx' < Len(current_word)
                       THEN Append(timers, SpeakText(
                                SoundOf(current_word[current_word_idx' + 1])))
                       ELSE IF LevelUpDue(recorded) /\ second # "written"
                       THEN timers
                       ELSE Append(timers, SpeakText(Amazing))
        /\ UNCHANGED << page, target_letter, find_grid, find_next_visible,
                        current_word, wrong >>
        /\ Quiet

\* A word restarted by a click with no letter left: not what lines 674-676
\* do.
NoLetterLeft_StartsOver ==
    /\ round' = [ round EXCEPT !.idle = @ + 1 ]
    /\ current_word_idx' = 0
    /\ UNCHANGED << data, file, page, target_letter, find_grid,
                    find_next_visible, current_word, history, file_history,
                    timers, wrong >>
    /\ Quiet

\* A click with no letter left that repeats the level-up of lines 690-695:
\* not what lines 674-676 do.
NoLetterLeft_LevelsUp ==
    /\ round' = [ round EXCEPT !.idle = @ + 1 ]
    /\ data' = IF LevelUpDue(data) THEN LevelUpData(data) ELSE data
    /\ file' = IF LevelUpDue(data) THEN Dump(data') ELSE file
    /\ file_history' = IF LevelUpDue(data) THEN history ELSE file_history
    /\ UNCHANGED << page, target_letter, find_grid, find_next_visible,
                    current_word, current_word_idx, history, timers, wrong >>
    /\ Quiet

\* _on_next_sound with no word or no letter left (lines 674-676): the
\* handler assigns nothing.
NoLetterLeft ==
    /\ round' = [ round EXCEPT !.idle = @ + 1 ]
    /\ UNCHANGED << data, file, page, target_letter, find_grid,
                    find_next_visible, current_word, current_word_idx,
                    history, file_history, timers, wrong >>
    /\ Quiet

\* Whether _on_next_sound reaches the save of line 695.
LevelUpReached(outcome) ==
    /\ outcome = "written"
    /\ current_word_idx + 1 >= Len(current_word)
    /\ LevelUpDue(RecordCorrectData(data, current_word[current_word_idx + 1]))

(***************************************************************************)
(* The scripted play                                                       *)
(***************************************************************************)
WrongPickDue ==
    data.total_correct = PriorWrongAt /\ data.total_attempts = PriorWrongAt

WarmUp ==
    /\ warmup > 0
    /\ timers = << >>
    /\ warmup' = warmup - 1
    /\ UNCHANGED << faults, steps, haste >>
    /\ IF WrongPickDue
       THEN CASE page = "find" -> FindLetter(PriorWrongButton, "written")
              [] page = "menu" -> /\ ModeSelect("find", LETTERS)
                                  /\ target_letter' = PriorTarget
                                  /\ find_grid' = PriorGrid
              [] OTHER -> Back
       ELSE IF data.total_correct % LevelEvery < PriorTaps
       THEN CASE page = "explore" -> ExploreLetter(LETTERS[1], "written")
              [] page = "menu" -> ModeSelect("explore", LETTERS)
              [] OTHER -> Back
       ELSE CASE page = "soundout" -> NextSound("written", "written")
              [] page = "menu" -> /\ ModeSelect("soundout", LETTERS)
                                  /\ current_word' = PriorWord
              [] OTHER -> Back

(***************************************************************************)
(* The events of the game after the scripted play                          *)
(***************************************************************************)
\* A click is handled when the script is over, the main loop is not inside
\* a handler, and the user has waited for all but haste pending timeouts.
Playing == warmup = 0 /\ ~speaking /\ Len(timers) <= haste

\* whether the file system may fail one more write
CanSave(outcome, failed) ==
    outcome \in SaveOutcomes /\ (outcome # "written" => failed < MaxFaults)

Failed(outcome) == IF outcome = "written" THEN 0 ELSE 1

\* the mode buttons of the menu page (line 382)
OnModeSelect(mode, letters) ==
    /\ Playing
    /\ page = "menu"
    /\ ModeSelect(mode, letters)
    /\ UNCHANGED << warmup, faults, steps, haste >>

OnBack ==
    /\ Playing
    /\ page # "menu"
    /\ Back
    /\ UNCHANGED << warmup, faults, steps, haste >>

\* the letter buttons of the Explore page (line 431)
OnExploreLetter(letter) ==
    /\ Playing
    /\ page = "explore"
    /\ steps < MaxSteps
    /\ \E outcome \in SaveOutcomes :
        /\ CanSave(outcome, faults)
        /\ ExploreLetter(letter, outcome)
        /\ faults' = faults + Failed(outcome)
    /\ steps' = steps + 1
    /\ UNCHANGED << warmup, haste >>

\* the find_next_btn (line 479)
OnFindNext(letters) ==
    /\ Playing
    /\ page = "find"
    /\ find_next_visible
    /\ StartFindRound(letters)
    /\ Quiet
    /\ UNCHANGED << data, file, page, current_word, current_word_idx,
                    haste, warmup, faults, steps, history, file_history >>

\* the letter buttons of the Find grid (line 588)
OnFindLetter(i) ==
    /\ Playing
    /\ page = "find"
    /\ i \in 1..Len(find_grid)
    /\ steps < MaxSteps
    /\ \E outcome \in SaveOutcomes :
        /\ CanSave(outcome, faults)
        /\ FindLetter(i, outcome)
        /\ faults' = faults + Failed(outcome)
    /\ steps' = steps + 1
    /\ UNCHANGED << warmup, haste >>

\* the new_word_btn (line 532)
OnNewWord(letters) ==
    /\ Playing
    /\ page = "soundout"
    /\ StartSoundoutRound(letters)
    /\ Quiet
    /\ UNCHANGED << data, file, page, target_letter, find_grid,
                    find_next_visible, wrong, haste, warmup, faults, steps,
                    history, file_history >>

\* the next_sound_btn (line 527)
OnNextSound ==
    /\ Playing
    /\ page = "soundout"
    /\ IF current_word # NoWord /\ current_word_idx < Len(current_word)
       THEN /\ steps < MaxSteps
            /\ \E outcome \in SaveOutcomes :
                /\ CanSave(outcome, faults)
                /\ IF LevelUpReached(outcome)
                   THEN \E second \in SaveOutcomes :
                            /\ CanSave(second, faults)
                            /\ NextSound(outcome, second)
                            /\ faults' = faults + Failed(second)
                   ELSE /\ NextSound(outcome, "written")
                        /\ faults' = faults + Failed(outcome)
            /\ steps' = steps + 1
       ELSE /\ round.idle < MaxIdle
            /\ NoLetterLeft
            /\ UNCHANGED << faults, steps >>
    /\ UNCHANGED << warmup, haste >>

\* The process ends and is started again: App.__init__ (lines 206-218)
\* and ProgressStore.__init__ (lines 130-134) with the file as it is.
OnRestart ==
    /\ Playing
    /\ tts_engine' = GetTtsEngine(backends)
    /\ launched' = Probed(backends)
    /\ data' = Load(DefaultData, file)
    /\ history' = IF file.kind = "json" THEN file_history ELSE NoHistory
    /\ page' = IF tts_engine' = Raised THEN NoWindow ELSE "menu"
    /\ target_letter' = NoLetter
    /\ find_grid' = << >>
    /\ find_next_visible' = FALSE
    /\ current_word' = NoWord
    /\ current_word_idx' = 0
    /\ round' = NoRound
    /\ said' = NoText
    /\ speaking' = FALSE
    /\ timers' = << >>
    /\ wrong' = {}
    /\ UNCHANGED << file, file_history, backends, haste, warmup, faults,
                    steps >>

\* The main loop calls the callback of the n-th pending timeout: the
\* lambdas of lines 558, 592, 613, 642, 701 and 708 call _speak and wait for
\* it, the lambda of line 622 removes the class "wrong" from its button.
OnTimeout(n) ==
    /\ ~speaking
    /\ n \in DOMAIN timers
    /\ timers' = Without(timers, n)
    /\ IF timers[n].kind = "clear_wrong"
       THEN /\ wrong' = wrong \ {timers[n].button}
            /\ Quiet
       ELSE /\ said' = CASE timers[n].kind = "speak_target" ->
                                NameOf(target_letter)
                          [] timers[n].kind = "speak_word" ->
                                WordText(current_word)
                          [] OTHER -> timers[n].text
            /\ launched' = Speak(tts_engine, backends)
            /\ speaking' = (Awaited(tts_engine, backends) # << >>)
            /\ UNCHANGED << wrong, tts_engine, backends >>
    /\ UNCHANGED << data, file, page, target_letter, find_grid,
                    find_next_visible, current_word, current_word_idx,
                    haste, warmup, faults, steps, history, file_history,
                    round >>

\* The processes _speak waits for end or its timeouts of 10 s pass, _speak
\* returns, and the handler or callback that called it returns.
OnSpeechEnd ==
    /\ speaking
    /\ speaking' = FALSE
    /\ UNCHANGED << data, file, page, target_letter, find_grid,
                    find_next_visible, current_word, current_word_idx,
                    tts_engine, backends, launched, said, timers, wrong,
                    haste, warmup, faults, steps, history, file_history,
                    round >>

\* the timeouts that can be pending at once
Timeouts == 1..(MaxHaste + 2)

Modes == {"explore", "find", "soundout"}

Next ==
    \/ WarmUp
    \/ \E mode \in Modes : OnModeSelect(mode, LETTERS)
    \/ OnBack
    \/ \E letter \in Range(LETTERS) : OnExploreLetter(letter)
    \/ OnFindNext(LETTERS)
    \/ \E i \in 1..(NumDistractors + 1) : OnFindLetter(i)
    \/ OnNewWord(LETTERS)
    \/ OnNextSound
    \/ OnRestart
    \/ \E n \in Timeouts : OnTimeout(n)

Spec == Init /\ [][Next]_vars

(***************************************************************************)
(* The rounds of Find the letter with FIND_LETTERS, on a first start.      *)
(***************************************************************************)
InitFind == Started /\ warmup = 0

NextFind ==
    \/ OnModeSelect("find", FIND_LETTERS)
    \/ OnBack
    \/ \E n \in Timeouts : OnTimeout(n)

SpecFind == InitFind /\ [][NextFind]_vars

(***************************************************************************)
(* Starts with a progress.json of any kind: absent, cut short, unreadable, *)
(* or an object with any of the six members and of a member the program    *)
(* does not know.                                                          *)
(***************************************************************************)
\* a value for every member a stored object may have
StoredValue ==
    [ letters_mastered |-> << "A", "K" >>, streak |-> 4, total_correct |-> 23,
      total_attempts |-> 25, stars |-> 31, level |-> 2, theme |-> "dark" ]

StoredObjects ==
    { [ k \in present |-> StoredValue[k] ] : present \in SUBSET DOMAIN StoredValue }

StoredFiles ==
    { NoFile, Truncated, Unreadable } \cup { Dump(m) : m \in StoredObjects }

InitLoad ==
    /\ file \in StoredFiles
    /\ file_history = NoHistory
    /\ history = NoHistory
    /\ backends = NoBackends
    /\ haste = 0
    /\ faults = 0
    /\ steps = 0
    /\ warmup = 0
    /\ Constructed

NextLoad ==
    \/ OnRestart
    \/ OnModeSelect("explore", LETTERS)
    \/ OnBack
    \/ \E letter \in Range(LETTERS) : OnExploreLetter(letter)
    \/ \E n \in Timeouts : OnTimeout(n)

SpecLoad == InitLoad /\ [][NextLoad]_vars

(***************************************************************************)
(* The rounds of Sound out the word with the words of WORD_LETTERS, after  *)
(* the scripted plays.                                                     *)
(***************************************************************************)
NextWords ==
    \/ WarmUp
    \/ OnModeSelect("soundout", WORD_LETTERS)
    \/ OnBack
    \/ OnNewWord(WORD_LETTERS)
    \/ OnNextSound
    \/ \E n \in Timeouts : OnTimeout(n)

SpecWords == Init /\ [][NextWords]_vars

(***************************************************************************)
(* Speech: the program started in every environment of backends, the two   *)
(* buttons that speak within their handler, and backends that come and go  *)
(* while the program runs.                                                 *)
(***************************************************************************)
InitSpeech ==
    /\ file = NoFile
    /\ file_history = NoHistory
    /\ history = NoHistory
    /\ backends \in Backends
    /\ haste = 0
    /\ faults = 0
    /\ steps = 0
    /\ warmup = 0
    /\ Constructed

\* _on_replay_find (lines 601-603), the play_btn of the Find page (line 459)
OnReplayFind ==
    /\ Playing
    /\ page = "find"
    /\ IF target_letter # NoLetter
       THEN /\ said' = NameOf(target_letter)
            /\ launched' = Speak(tts_engine, backends)
            /\ speaking' = (Awaited(tts_engine, backends) # << >>)
       ELSE /\ said' = NoText
            /\ launched' = << >>
            /\ speaking' = FALSE
    /\ UNCHANGED << data, file, page, target_letter, find_grid,
                    find_next_visible, current_word, current_word_idx,
                    tts_engine, backends, timers, wrong, haste, warmup,
                    faults, steps, history, file_history, round >>

\* _on_sound_current (lines 662-670), the sound_btn of the Sound-out page
\* (line 521)
OnSoundCurrent ==
    /\ Playing
    /\ page = "soundout"
    /\ IF current_word # NoWord /\ current_word_idx < Len(current_word)
       THEN /\ said' = SoundOf(current_word[current_word_idx + 1])
            /\ launched' = Speak(tts_engine, backends)
            /\ speaking' = (Awaited(tts_engine, backends) # << >>)
       ELSE /\ said' = NoText
            /\ launched' = << >>
            /\ speaking' = FALSE
    /\ UNCHANGED << data, file, page, target_letter, find_grid,
                    find_next_visible, current_word, current_word_idx,
                    tts_engine, backends, timers, wrong, haste, warmup,
                    faults, steps, history, file_history, round >>

\* The environment: a backend is installed, removed, made unusable or
\* starts to hang while the program runs.
OnBackendChange ==
    /\ backends' \in Backends \ {backends}
    /\ UNCHANGED << data, file, page, target_letter, find_grid,
                    find_next_visible, current_word, current_word_idx,
                    tts_engine, launched, said, speaking, timers, wrong,
                    haste, warmup, faults, steps, history, file_history,
                    round >>

NextSpeech ==
    \/ \E mode \in Modes : OnModeSelect(mode, LETTERS)
    \/ OnBack
    \/ OnNewWord(LETTERS)
    \/ OnReplayFind
    \/ OnSoundCurrent
    \/ OnBackendChange
    \/ OnRestart
    \/ \E n \in Timeouts : OnTimeout(n)
    \/ OnSpeechEnd

SpecSpeech == InitSpeech /\ [][NextSpeech]_vars

(***************************************************************************)
(* The store: the scripted play, then Explore with a letter of ASCII and a *)
(* letter outside it, Sound-out, failing writes and restarts.              *)
(***************************************************************************)
EXPLORE_LETTERS == << "A", "AA" >>

NextStore ==
    \/ WarmUp
    \/ \E mode \in {"explore", "soundout"} : OnModeSelect(mode, LETTERS)
    \/ OnBack
    \/ \E letter \in Range(EXPLORE_LETTERS) : OnExploreLetter(letter)
    \/ OnNewWord(LETTERS)
    \/ OnNextSound
    \/ OnRestart
    \/ \E n \in Timeouts : OnTimeout(n)

SpecStore == Init /\ [][NextStore]_vars

(***************************************************************************)
(* Timeouts: the rounds of Find and Sound-out and their speech, with a     *)
(* user who clicks while timeouts are pending, on a machine with any       *)
(* backends.                                                               *)
(***************************************************************************)
InitTimers ==
    /\ file = NoFile
    /\ file_history = NoHistory
    /\ history = NoHistory
    /\ backends \in Backends
    /\ haste = MaxHaste
    /\ faults = 0
    /\ steps = 0
    /\ warmup = 0
    /\ Constructed

NextTimers ==
    \/ OnModeSelect("find", LETTERS)
    \/ OnModeSelect("soundout", WORD_LETTERS)
    \/ OnBack
    \/ OnReplayFind
    \/ OnNewWord(WORD_LETTERS)
    \/ OnSoundCurrent
    \/ \E n \in Timeouts : OnTimeout(n)
    \/ OnSpeechEnd

SpecTimers == InitTimers /\ [][NextTimers]_vars

(***************************************************************************)
(* The Find page, of two letters, with a user who clicks while timeouts    *)
(* are pending.  The main loop calls the callback of a timeout that is     *)
(* due: a pending timeout does not stay pending for ever.                  *)
(***************************************************************************)
TWO_LETTERS == << "A", "K" >>

InitFindTimers ==
    /\ file = NoFile
    /\ file_history = NoHistory
    /\ history = NoHistory
    /\ backends = NoBackends
    /\ haste = MaxHaste
    /\ faults = 0
    /\ steps = 0
    /\ warmup = 0
    /\ Constructed

Timeout == \E n \in Timeouts : OnTimeout(n)

NextFindTimers ==
    \/ OnModeSelect("find", TWO_LETTERS)
    \/ OnBack
    \/ OnFindNext(TWO_LETTERS)
    \/ \E i \in 1..(NumDistractors + 1) : OnFindLetter(i)
    \/ Timeout

SpecFindTimers ==
    InitFindTimers /\ [][NextFindTimers]_vars /\ WF_vars(Timeout)

(***************************************************************************)
(* The steps that are one call of a handler, by the handler.               *)
(***************************************************************************)
\* _on_explore_letter for `letter`
TappedExplore(letter) ==
    /\ page = "explore"
    /\ \E outcome \in SaveOutcomes : ExploreLetter(letter, outcome)

\* _on_find_letter from the i-th button
PickedFind(i) ==
    /\ page = "find"
    /\ i \in 1..Len(find_grid)
    /\ \E outcome \in SaveOutcomes : FindLetter(i, outcome)

\* _on_next_sound with a letter left
Advanced ==
    /\ page = "soundout"
    /\ current_word # NoWord
    /\ current_word_idx < Len(current_word)
    /\ \E outcome, second \in SaveOutcomes : NextSound(outcome, second)

\* a step that starts the program again
Restarted == OnRestart

(***************************************************************************)
(* record_correct and record_wrong                                         *)
(***************************************************************************)
\* What a call record_correct(letter) makes of the counters.
CorrectEffect(letter) ==
    /\ data'.total_correct = data.total_correct + 1
    /\ data'.total_attempts = data.total_attempts + 1
    /\ data'.streak = data.streak + 1
    /\ letter \in Range(data'.letters_mastered)
    /\ data'.stars = data.stars
           + (IF data'.streak > 0 /\ data'.streak % 5 = 0 THEN 3 ELSE 1)

\* The record after five record_correct("A") and nothing else.
FiveTimesA ==
    /\ history.correct_calls = 5
    /\ history.wrong_calls = 0
    /\ history.passed = {"A"}

\* C1: every handler call that calls record_correct(letter) adds 1 to
\* total_correct, total_attempts and streak, leaves letter in
\* letters_mastered, adds 3 to stars if the new streak is a positive
\* multiple of 5 and 1 otherwise, and record_correct itself leaves level as
\* it was (_on_next_sound may raise it afterwards); five record_correct("A")
\* on the default record give stars 7, streak 5 and letters_mastered ["A"].
C1_RecordCorrect ==
    /\ [][ /\ \A letter \in Range(LETTERS) :
                TappedExplore(letter)
                    => CorrectEffect(letter) /\ data'.level = data.level
           /\ \A i \in 1..(NumDistractors + 1) :
                PickedFind(i) /\ find_grid[i] = target_letter
                    => CorrectEffect(target_letter) /\ data'.level = data.level
           /\ Advanced
                => /\ CorrectEffect(current_word[current_word_idx + 1])
                   /\ data'.level # data.level
                        => /\ LevelUpDue(data')
                           /\ current_word_idx' = Len(current_word)
         ]_vars
    /\ [](FiveTimesA => /\ data.stars = 7
                        /\ data.streak = 5
                        /\ data.letters_mastered = <<"A">>)

C1_Witness ==
    /\ FiveTimesA
    /\ data.stars = 7
    /\ data.streak = 5
    /\ data.total_correct = 5
    /\ data.letters_mastered = <<"A">>

\* C2: a handler call that calls record_wrong sets streak to 0, adds 1 to
\* total_attempts, and leaves total_correct, stars, letters_mastered and
\* level as they were.
C2_RecordWrong ==
    [][ \A i \in 1..(NumDistractors + 1) :
            PickedFind(i) /\ find_grid[i] # target_letter
                => /\ data'.streak = 0
                   /\ data'.total_attempts = data.total_attempts + 1
                   /\ data'.total_correct = data.total_correct
                   /\ data'.stars = data.stars
                   /\ data'.letters_mastered = data.letters_mastered
                   /\ data'.level = data.level
      ]_vars

\* a wrong pick has ended a streak of PriorWrongAt
C2_Witness ==
    /\ history.wrong_calls = 1
    /\ history.correct_calls = PriorWrongAt
    /\ data.streak = 0
    /\ data.total_attempts = PriorWrongAt + 1
    /\ data.total_correct = PriorWrongAt

(***************************************************************************)
(* The level                                                               *)
(***************************************************************************)
\* C3: whenever a handler call brings total_correct to a positive multiple
\* of 20, in any mode, level becomes min(level + 1, 3), and it changes on
\* no other call; with total_correct 20 after a first start level is 2.
C3_LevelUpInAnyMode ==
    /\ [][ Restarted
           \/ IF /\ data'.total_correct # data.total_correct
                 /\ data'.total_correct > 0
                 /\ data'.total_correct % 20 = 0
              THEN data'.level = Min(data.level + 1, 3)
              ELSE data'.level = data.level
         ]_vars
    /\ [](data.total_correct = 20 => data.level = 2)

C5_Stars ==
    /\ [](/\ data.stars = data.total_correct + 2 * history.bonus_calls
          /\ data.stars >= data.total_correct)
    /\ [][ Restarted \/ data'.stars >= data.stars ]_vars

\* bonuses before and after a wrong pick, total_correct no multiple of 5
C5_Witness ==
    /\ history.bonus_calls = 3
    /\ history.wrong_calls = 1
    /\ data.streak = 10
    /\ data.total_correct = 18
    /\ data.stars = 24

\* C6: total_correct <= total_attempts, with equality exactly when
\* record_wrong was never called; streak, total_correct, total_attempts and
\* stars are never negative.
C6_Counters ==
    /\ data.total_correct <= data.total_attempts
    /\ data.total_correct = data.total_attempts <=> history.wrong_calls = 0
    /\ data.streak >= 0
    /\ data.total_correct >= 0
    /\ data.total_attempts >= 0
    /\ data.stars >= 0

\* two wrong picks, correct answers before and after them
C6_Witness ==
    /\ history.wrong_calls = 2
    /\ data.total_attempts = data.total_correct + 2
    /\ data.total_correct > PriorWrongAt
    /\ data.streak > 0

\* C7: letters_mastered holds exactly the letters passed to record_correct,
\* none twice; no handler call removes a letter or moves one, and a wrong
\* pick adds none.
C7_Mastered ==
    /\ [](/\ Range(data.letters_mastered) = history.passed
          /\ Cardinality(Range(data.letters_mastered))
                 = Len(data.letters_mastered))
    /\ [][ /\ Restarted
              \/ /\ Len(data'.letters_mastered) >= Len(data.letters_mastered)
                 /\ \A i \in 1..Len(data.letters_mastered) :
                        data'.letters_mastered[i] = data.letters_mastered[i]
           /\ \A i \in 1..(NumDistractors + 1) :
                PickedFind(i) /\ find_grid[i] # target_letter
                    => data'.letters_mastered = data.letters_mastered
         ]_vars

\* three letters mastered, the first passed many times, one wrong pick
C7_Witness ==
    /\ data.letters_mastered = <<"A", "K", "T">>
    /\ history.passed = {"A", "K", "T"}
    /\ history.correct_calls = 20
    /\ history.wrong_calls = 1

(***************************************************************************)
(* Find the letter                                                         *)
(***************************************************************************)
\* C8: picking the target calls record_correct(target) and shows the
\* find_next_btn; picking another letter calls record_wrong once and leaves
\* the target, the grid and the find_next_btn as they were; so the
\* find_next_btn is visible only if the target was picked since the round
\* started, and a new round hides it.
C8_FindSelect ==
    /\ [][ \A i \in 1..(NumDistractors + 1) :
             PickedFind(i)
                => IF find_grid[i] = target_letter
                   THEN /\ CorrectEffect(target_letter)
                        /\ find_next_visible'
                   ELSE /\ data'.total_attempts = data.total_attempts + 1
                        /\ data'.total_correct = data.total_correct
                        /\ data'.streak = 0
                        /\ UNCHANGED << target_letter, find_grid,
                                        find_next_visible >>
         ]_vars
    /\ [][ OnFindNext(LETTERS) => ~find_next_visible' ]_vars
    /\ [](page = "find" /\ find_next_visible => round.target_selected)

\* C9: after _start_find_round the target is in the grid, the grid holds no
\* letter twice and only letters of the alphabet, and it holds
\* min(6, number of letters) letters.
C9_FindRound ==
    page = "find"
        => /\ target_letter \in Range(find_grid)
           /\ Cardinality(Range(find_grid)) = Len(find_grid)
           /\ Range(find_grid) \subseteq Range(FIND_LETTERS)
           /\ Len(find_grid) = Min(6, Len(FIND_LETTERS))

\* a round of six buttons out of more letters, the target shuffled to the end
C9_Witness ==
    /\ page = "find"
    /\ Len(FIND_LETTERS) > 6
    /\ Len(find_grid) = 6
    /\ find_grid[6] = target_letter
    /\ FIND_LETTERS[1] \notin Range(find_grid)

(***************************************************************************)
(* Sound out the word                                                      *)
(***************************************************************************)
\* C10: current_word_idx stays in 0..Len(current_word); the i-th
\* Next-sound click of a round passes the i-th letter of the word to
\* record_correct; the word is complete after Len(current_word) clicks and
\* not before, and then total_correct is Len(current_word) more than when
\* the round started.
C10_SoundOutRound ==
    page = "soundout"
        => /\ current_word_idx \in 0..Len(current_word)
           /\ Len(round.sounded) <= Len(current_word)
           /\ \A i \in 1..Len(round.sounded) :
                  i <= Len(current_word) => round.sounded[i] = current_word[i]
           /\ current_word_idx = Len(current_word)
                  <=> Len(round.sounded) = Len(current_word)
           /\ current_word_idx = Len(current_word)
                  => data.total_correct
                         = round.correct_at_start + Len(current_word)

\* C11: a Next-sound click on a word with no letter left changes neither
\* current_word_idx, current_word, the progress record nor progress.json,
\* however often it is repeated.
C11_AdvanceWhenComplete ==
    [][ (/\ page = "soundout"
         /\ current_word_idx >= Len(current_word)
         /\ round'.idle = round.idle + 1)
            => UNCHANGED << current_word_idx, current_word, data, file >>
      ]_vars

\* a word completed with a level-up, then two more clicks
C11_Witness ==
    /\ page = "soundout"
    /\ current_word_idx = Len(current_word)
    /\ round.idle = 2
    /\ data.total_correct = 20
    /\ data.level = 2
    /\ file = Dump(data)

\* a step that is a call of _start_soundout_round: from the menu, or by
\* the new_word_btn
StartedWord ==
    /\ page' = "soundout"
    /\ \/ page = "menu"
       \/ /\ page = "soundout"
          /\ data' = data
          /\ round'.idle = 0
          /\ round'.sounded = << >>

\* C12: _start_soundout_round picks an easy word at level 1, an easy or
\* medium word at level 2 and a word of any list at level 3, the level
\* being the one at the call, and leaves current_word_idx 0.
C12_WordByLevel ==
    [][ StartedWord
            => /\ current_word_idx' = 0
               /\ current_word' \in
                      Range(WORDS_EASY)
                      \cup (IF data.level >= 2 THEN Range(WORDS_MEDIUM) ELSE {})
                      \cup (IF data.level >= 3 THEN Range(WORDS_HARD) ELSE {})
      ]_vars

\* a hard word at level 3, chosen on a word part of which was sounded
C12_Witness ==
    /\ page = "soundout"
    /\ data.level = 3
    /\ data.total_correct = 59
    /\ current_word \in Range(WORDS_HARD)
    /\ current_word_idx = 0

(***************************************************************************)
(* Explore                                                                 *)
(***************************************************************************)
\* C13: a tap on the Explore page calls record_correct with the tapped
\* letter once and record_wrong never: no step on the page lowers streak
\* or widens the gap between total_attempts and total_correct.
C13_ExploreNeverWrong ==
    [][ /\ \A letter \in Range(LETTERS) :
             TappedExplore(letter)
                 => /\ history'.correct_calls = history.correct_calls + 1
                    /\ letter \in history'.passed
                    /\ data'.streak = data.streak + 1
        /\ (page = "explore" /\ page' = "explore")
             => /\ history'.wrong_calls = history.wrong_calls
                /\ history'.correct_calls <= history.correct_calls + 1
                /\ data'.streak >= data.streak
                /\ data'.total_attempts - data'.total_correct
                       = data.total_attempts - data.total_correct
      ]_vars

\* two taps on a first start, the second on another letter
C13_Witness ==
    /\ page = "explore"
    /\ history.correct_calls = 2
    /\ history.wrong_calls = 0
    /\ data.letters_mastered = << "K", "T" >>
    /\ data.streak = 2
    /\ data.total_attempts = 2

(***************************************************************************)
(* progress.json                                                           *)
(***************************************************************************)
\* C14: after a handler call that changed the record and whose writes all
\* succeeded, progress.json holds the whole record; as long as no write has
\* failed, the record is the default record with no file, or the file's.
C14_SavedAfterEveryMutation ==
    /\ [][ (data' # data /\ faults' = faults /\ ~Restarted)
               => file'.kind = "json" /\ file'.members = data'
         ]_vars
    /\ [](faults = 0
              => \/ file = NoFile /\ data = DefaultData
                 \/ file.kind = "json" /\ file.members = data)

\* a write failed, the next one succeeded: the file holds the whole record
C14_Witness ==
    /\ faults = 1
    /\ data.total_correct = 2
    /\ data.total_attempts = 2
    /\ file.kind = "json"
    /\ file.members = data

\* C15: a handler call in which a write of progress.json fails still
\* changes the record and completes: a pick of the target shows the
\* find_next_btn, a Next-sound click moves current_word_idx on.
C15_WriteFailureSwallowed ==
    [][ faults' > faults
            => /\ data' # data
               /\ \A i \in 1..(NumDistractors + 1) :
                    (PickedFind(i) /\ find_grid[i] = target_letter)
                        => find_next_visible'
               /\ Advanced => current_word_idx' = current_word_idx + 1
      ]_vars

\* The record ProgressStore.__init__ leaves for the progress.json it found.
Loaded ==
    /\ page = "menu"
    /\ IF file.kind = "json"
       THEN /\ DOMAIN data = (DOMAIN DefaultData) \cup (DOMAIN file.members)
            /\ \A k \in DOMAIN data :
                 data[k] = IF k \in DOMAIN file.members
                           THEN JsonLoad(file.members)[k]
                           ELSE DefaultData[k]
       ELSE data = DefaultData

\* C16: a start never fails on progress.json: with the file absent,
\* unreadable or unparseable the record is the default record; with a JSON
\* object every member of the object has the stored value, every other
\* member of the record its default, and a member the program does not know
\* is no error.
C16_Load ==
    /\ Loaded
    /\ [][ Restarted => Loaded' ]_vars

\* an object with total_correct and an unknown member, without level
C16_Witness ==
    /\ file.kind = "json"
    /\ DOMAIN file.members = {"total_correct", "theme"}
    /\ data.total_correct = 23
    /\ data.level = 1
    /\ data.stars = 0
    /\ data.theme = "dark"
    /\ steps = 0

\* C17: the record a start finds lacks no more than the handler calls
\* whose write was cut off: an interrupted write loses its own update only.
C17_CrashLosesOneUpdate ==
    [][ Restarted => data'.total_attempts + faults >= data.total_attempts
      ]_vars

\* the priority of the two backends: an engine, the processes its detection
\* started and the backends it probed
Detected(engine, started, b) ==
    /\ b.piper = "runs" => engine = "piper" /\ started = << "piper --help" >>
    /\ engine = "espeak-ng"
        <=> b.piper \in {"missing", "hangs"} /\ b.espeak = "runs"
    /\ b.piper \in {"missing", "hangs"} /\ b.espeak \in {"missing", "hangs"}
        => engine = NoEngine
    /\ Len(started) = 2
        => started = << "piper --help", "espeak-ng --help" >>

\* C18: at every start the engine is piper whenever the piper probe
\* completes, espeak-ng exactly when the piper probe found nothing or timed
\* out and the espeak-ng probe completes, None when both probes find
\* nothing or time out; piper is probed first and espeak-ng never when
\* piper runs.
C18_DetectPriority ==
    /\ Detected(tts_engine, launched, backends)
    /\ [][ Restarted => Detected(tts_engine', launched', backends') ]_vars

\* a start with a piper that hangs and an espeak-ng that runs
C18_Witness ==
    /\ page = "menu"
    /\ backends = [ piper |-> "hangs", espeak |-> "runs" ]
    /\ tts_engine = "espeak-ng"
    /\ launched = << "piper --help", "espeak-ng --help" >>

\* C19: in every environment of backends the detection returns an engine
\* or None and the program shows its window.
C19_DetectNeverRaises ==
    tts_engine \in {"piper", "espeak-ng", NoEngine} /\ page # NoWindow

\* C20: with the engine None a button that speaks starts no process.
C20_SilentWithoutEngine ==
    [][ (OnReplayFind \/ OnSoundCurrent) /\ tts_engine = NoEngine
            => launched' = << >>
      ]_vars

\* C22: a step that raises the level raises it by one and raises
\* total_correct with it, so that the level is never raised twice while
\* total_correct holds one value; this with Next-sound clicks on a complete
\* word, new rounds, mode changes and restarts.
C22_OneLevelUpPerTotal ==
    [][ data'.level > data.level
            => /\ data'.level = data.level + 1
               /\ data'.total_correct = data.total_correct + 1
      ]_vars

\* the word completed at total_correct 20, the level raised to 2, and a
\* Next-sound click after that
C22_Witness ==
    /\ page = "soundout"
    /\ data.total_correct = LevelEvery
    /\ data.level = 2
    /\ current_word_idx = Len(current_word)
    /\ round.idle >= 1

\* C24: once the target was selected in a Find round, a click on a letter
\* of the grid in that round changes nothing in the record.
C24_OneCorrectPerRound ==
    [][ \A i \in 1..(NumDistractors + 1) :
            PickedFind(i) /\ round.target_selected => data' = data
      ]_vars

\* C26: a start after a successful write of the record finds the record:
\* letters_mastered, streak, total_correct, total_attempts, stars and level
\* are what they were before the process ended.
C26_SaveLoadRoundTrip ==
    [][ Restarted /\ file = Dump(data) => data' = data ]_vars

\* the record of the second level with a letter outside ASCII mastered,
\* written and loaded
C26_Witness ==
    /\ page = "menu"
    /\ steps > 0
    /\ data.level = 2
    /\ "AA" \in Range(data.letters_mastered)
    /\ file = Dump(data)
    /\ data = Load(DefaultData, file)
    /\ history = file_history

\* a call of _speak by a handler or by the callback of a timeout
Spoke ==
    \/ OnReplayFind /\ target_letter # NoLetter
    \/ OnSoundCurrent /\ said' # NoText
    \/ \E n \in Timeouts : OnTimeout(n) /\ timers[n].kind # "clear_wrong"

\* C21: a handler or callback that speaks returns without waiting for the
\* synthesis or the playback, and leaves the record and the round as they
\* are whatever becomes of the speech.
C21_FireAndForget ==
    [][ Spoke => /\ ~speaking'
                 /\ UNCHANGED << data, file, page, target_letter, find_grid,
                                 find_next_visible, current_word,
                                 current_word_idx >>
      ]_vars

\* the callback of a clear_wrong timeout
Cleared(n) == OnTimeout(n) /\ timers[n].kind = "clear_wrong"

\* C23: a button of the Find grid that has the class "wrong" loses it, by
\* its timeout alone; the callback changes neither the record nor the
\* round; this also for a button clicked twice before its first timeout.
C23_WrongCleared ==
    /\ \A i \in DOMAIN TWO_LETTERS : (i \in wrong) ~> (i \notin wrong)
    /\ [][ \A n \in Timeouts :
             Cleared(n) => UNCHANGED << data, file, page, target_letter,
                                        find_grid, find_next_visible >>
         ]_vars

\* two wrong picks of one button before its first timeout; the first
\* timeout has removed the class, the second is pending
C23_Witness ==
    /\ page = "find"
    /\ history.wrong_calls = 2
    /\ wrong = {}
    /\ Len(timers) = 1
    /\ timers[1].kind = "clear_wrong"
    /\ timers[1].button # 0
    /\ find_grid[timers[1].button] # target_letter

\* C25: the callback of the timeout that a round start scheduled speaks the
\* text of that round: the name of its target letter, or its word.
C25_DelayedSpeechOfItsRound ==
    [][ \A n \in Timeouts :
            OnTimeout(n) /\ timers[n].kind \in {"speak_target", "speak_word"}
                => said' = timers[n].round
      ]_vars

====
